---- MODULE Spec2Model ----
(***************************************************************************)
(* Model of src/app.py (ONE Names Extractor): the resolver                 *)
(* search_onefc_link, the fetcher fetch_athlete_data, the parser           *)
(* extract_nickname_and_clean and the two-phase batch run that the         *)
(* "SEARCH ATHLETES" button starts.                                        *)
(*                                                                         *)
(* Python strings are sequences of one-character strings.  The network is  *)
(* the environment: every request is answered by a nondeterministic        *)
(* choice among an exception (timeout, connection error), a non-200        *)
(* status and a 200 page.                                                  *)
(***************************************************************************)
EXTENDS Integers, Sequences, FiniteSets, TLC

\* ------------------------------------------------------------------------
\* Bounds
\* ------------------------------------------------------------------------
\* number of raw pieces (separated by comma or newline) in the text area
MaxPieces == 2

\* length of the slugs of the canonical URLs the resolver is tried on
MaxSlugLen == 3

\* length of the strings the parser is tried on
MaxRawLen == 4

\* ------------------------------------------------------------------------
\* Python values
\* ------------------------------------------------------------------------
\* Python's None; no string of the model contains this token
None == << "<None>" >>

\* truthiness of an Optional[str]: None and "" are falsy
Truthy(x) == x # None /\ x # << >>

\* ------------------------------------------------------------------------
\* String helpers (str methods used by the source)
\* ------------------------------------------------------------------------
\* characters str.strip() and str.split() treat as whitespace
IsSpace(c) == c \in {" ", "\t", "\n"}

RECURSIVE LStrip(_)
LStrip(s) == IF s # << >> /\ IsSpace(Head(s)) THEN LStrip(Tail(s)) ELSE s

RECURSIVE RStrip(_)
RStrip(s) ==
  IF s # << >> /\ IsSpace(s[Len(s)]) THEN RStrip(SubSeq(s, 1, Len(s) - 1)) ELSE s

\* str.strip()
Strip(s) == RStrip(LStrip(s))

\* sub is a prefix of s
StartsWith(s, sub) == Len(sub) <= Len(s) /\ SubSeq(s, 1, Len(sub)) = sub

\* str.find(sub, start): 1-based position of the first occurrence at or
\* after position start, 0 when there is none
Find(s, sub, start) ==
  LET hits == { i \in start..(Len(s) - Len(sub) + 1) :
                  SubSeq(s, i, i + Len(sub) - 1) = sub }
  IN IF hits = {} THEN 0 ELSE CHOOSE i \in hits : \A j \in hits : i <= j

\* sub in s
Contains(s, sub) == Find(s, sub, 1) # 0

\* str.count(c) for a one-character c
Count(s, c) == Cardinality({ i \in 1..Len(s) : s[i] = c })

\* str.lower() on the characters of the model
LowerChar(c) ==
  CASE c = "A" -> "a" [] c = "B" -> "b" [] c = "C" -> "c" [] OTHER -> c

Lower(s) == [ i \in 1..Len(s) |-> LowerChar(s[i]) ]

\* str.replace(" ", "-")
ReplaceSpaceHyphen(s) == [ i \in 1..Len(s) |-> IF s[i] = " " THEN "-" ELSE s[i] ]

\* split s at every character in seps, keeping empty pieces
\* (re.split(r'[,\n]', s) and str.split('/'))
RECURSIVE SplitAt(_, _)
SplitAt(s, seps) ==
  LET cut == { i \in 1..Len(s) : s[i] \in seps }
  IN IF cut = {} THEN << s >>
     ELSE LET i == CHOOSE k \in cut : \A j \in cut : k <= j
          IN << SubSeq(s, 1, i - 1) >> \o SplitAt(SubSeq(s, i + 1, Len(s)), seps)

\* the non-empty members of a sequence of strings
RECURSIVE NonEmpty(_)
NonEmpty(ss) ==
  IF ss = << >> THEN << >>
  ELSE IF Head(ss) = << >> THEN NonEmpty(Tail(ss))
       ELSE << Head(ss) >> \o NonEmpty(Tail(ss))

\* str.split(): split on runs of whitespace, no empty pieces
SplitWs(s) ==
  NonEmpty(SplitAt([ i \in 1..Len(s) |-> IF IsSpace(s[i]) THEN " " ELSE s[i] ],
                   {" "}))

\* " ".join(words)
RECURSIVE JoinSpace(_)
JoinSpace(ws) ==
  IF ws = << >> THEN << >>
  ELSE IF Len(ws) = 1 THEN Head(ws)
       ELSE Head(ws) \o << " " >> \o JoinSpace(Tail(ws))

\* str.strip('/')
RECURSIVE StripSlash(_)
StripSlash(s) ==
  IF s # << >> /\ Head(s) = "/" THEN StripSlash(Tail(s))
  ELSE IF s # << >> /\ s[Len(s)] = "/" THEN StripSlash(SubSeq(s, 1, Len(s) - 1))
       ELSE s

\* the elements of a sequence
Range(f) == { f[i] : i \in DOMAIN f }

\* ------------------------------------------------------------------------
\* URLs
\* ------------------------------------------------------------------------
\* the substring the resolver looks for: "onefc.com/athletes/"
Marker ==
  << "o","n","e","f","c",".","c","o","m","/","a","t","h","l","e","t","e","s","/" >>

\* "https://www.onefc.com/"
Site == << "h","t","t","p","s",":","/","/","w","w","w",".",
           "o","n","e","f","c",".","c","o","m","/" >>

\* "athletes/"
AthletesSeg == << "a","t","h","l","e","t","e","s","/" >>

\* f"https://www.onefc.com/athletes/{slug}/"
ProfileUrl(slug) == Site \o AthletesSeg \o slug \o << "/" >>

\* the canonical profile URL shape https://<site>/athletes/<slug>/ with a
\* non-empty slug of slug characters
IsCanonical(u) ==
  /\ StartsWith(u, Site \o AthletesSeg)
  /\ Len(u) > Len(Site \o AthletesSeg) + 1
  /\ u[Len(u)] = "/"
  /\ \A k \in (Len(Site \o AthletesSeg) + 1)..(Len(u) - 1) :
        u[k] \in {"a", "b", "c", "-"}

\* urllib.parse.urlparse(url).path, or Raises when urlsplit raises
\* ValueError("Invalid IPv6 URL") for a netloc with an unmatched bracket
Raises == << "<ValueError>" >>

SchemeChars == {"a", "b", "c", "e", "f", "h", "l", "m", "n", "o", "p", "s", "t",
                "w", "A", "B", "C", "-", "."}

UrlPath(url) ==
  LET u0 == LStrip(url)
      c  == Find(u0, << ":" >>, 1)
      hasScheme == /\ c > 1
                   /\ u0[1] \in SchemeChars \ {"-", "."}
                   /\ \A k \in 1..(c - 1) : u0[k] \in SchemeChars
      u1 == IF hasScheme THEN SubSeq(u0, c + 1, Len(u0)) ELSE u0
      hasNetloc == StartsWith(u1, << "/", "/" >>)
      delims == { k \in 3..Len(u1) : u1[k] \in {"/", "?", "#"} }
      delim  == IF delims = {} THEN Len(u1) + 1
                ELSE CHOOSE k \in delims : \A j \in delims : k <= j
      netloc == IF hasNetloc THEN SubSeq(u1, 3, delim - 1) ELSE << >>
      u2 == IF hasNetloc THEN SubSeq(u1, delim, Len(u1)) ELSE u1
      u3 == Head(SplitAt(u2, {"#"}))
      u4 == Head(SplitAt(u3, {"?"}))
  IN IF (Contains(netloc, << "[" >>) /\ ~Contains(netloc, << "]" >>))
        \/ (Contains(netloc, << "]" >>) /\ ~Contains(netloc, << "[" >>))
     THEN Raises
     ELSE u4

\* slug = parsed.path.strip('/').split('/')[-1].lower()
SlugOf(url) ==
  LET parts == SplitAt(StripSlash(UrlPath(url)), {"/"})
  IN Lower(parts[Len(parts)])

\* the configured locales; EN is the default locale
Langs == {"EN", "TH", "JP", "SC"}

LangPrefix(lang) ==
  CASE lang = "EN" -> << >>
    [] lang = "TH" -> << "t", "h", "/" >>
    [] lang = "JP" -> << "j", "p", "/" >>
    [] lang = "SC" -> << "c", "n", "/" >>

\* the langs dict of fetch_athlete_data
LangUrl(lang, slug) == Site \o LangPrefix(lang) \o AthletesSeg \o slug \o << "/" >>

\* ------------------------------------------------------------------------
\* Resolver (search_onefc_link), the parts that are pure
\* ------------------------------------------------------------------------
\* variant: the marker is looked for at the start of the query only
DirectHit_PrefixOnly(query) == StartsWith(Strip(query), Marker)

\* 1. Direct URL check
DirectHit(query) == Contains(Strip(query), Marker)

\* 2. Slug guessing (full name)
UrlFull(query) == ProfileUrl(ReplaceSpaceHyphen(Lower(Strip(query))))

\* 3. Slug guessing (first name only)
UrlFirst(query) == ProfileUrl(Lower(Head(SplitWs(Strip(query)))))

\* urllib.parse.quote_plus: letters, digits and "_.-~" stay, a space becomes
\* "+", every other character is percent-encoded
QuoteChar(c) ==
  CASE c = " " -> << "+" >>
    [] c = "/" -> << "%", "2", "F" >>
    [] c = ":" -> << "%", "3", "A" >>
    [] c = "[" -> << "%", "5", "B" >>
    [] c = "\"" -> << "%", "2", "2" >>
    [] OTHER   -> << c >>

RECURSIVE QuotePlus(_)
QuotePlus(s) ==
  IF s = << >> THEN << >> ELSE QuoteChar(Head(s)) \o QuotePlus(Tail(s))

\* f"https://www.onefc.com/?s={quote_plus(query)}", query already stripped
SearchUrl(query) == Site \o << "?", "s", "=" >> \o QuotePlus(Strip(query))

\* variant: the bare except answers True
CheckUrlValid_ErrorMeansFound(resp) == resp.kind # "status"

\* check_url_valid: True only for a response with status 200; an exception
\* is caught and gives False
CheckUrlValid(resp) == resp.kind = "ok"

\* 4. the anchor loop of the site search fallback over the hrefs of the
\* primary content region, in document order
RECURSIVE FirstAthleteHref(_)
FirstAthleteHref(links) ==
  IF links = << >> THEN None
  ELSE IF Contains(Head(links), << "/" >> \o AthletesSeg)
          /\ Count(Head(links), "/") >= 4
       THEN Head(links)
       ELSE FirstAthleteHref(Tail(links))

\* the search request and its parsing: an exception anywhere (request
\* failure, no main/content/body element) is caught and gives None; the
\* status code of the search response is not looked at
SearchResult(resp) ==
  IF resp.kind = "exception" \/ resp.links = None THEN None
  ELSE FirstAthleteHref(resp.links)

\* ------------------------------------------------------------------------
\* Parser (extract_nickname_and_clean)
\* ------------------------------------------------------------------------
\* the quote glyphs of the pattern ["“](.*?)["”]; the strings
\* "ldquo" and "rdquo" stand for the characters U+201C and U+201D
OpenQuotes  == {"\"", "ldquo"}
CloseQuotes == {"\"", "rdquo"}

\* "Name not found" and "Not Available"
NameNotFound ==
  << "N","a","m","e"," ","n","o","t"," ","f","o","u","n","d" >>

NotAvailable ==
  << "N","o","t"," ","A","v","a","i","l","a","b","l","e" >>

\* the end of the match of the pattern that starts at position i, 0 when
\* there is none: the first closing quote after i, with no newline in
\* between ('.' does not match a newline)
MatchEnd(s, i) ==
  IF i > Len(s) \/ s[i] \notin OpenQuotes THEN 0
  ELSE LET ends == { j \in (i + 1)..Len(s) :
                       /\ s[j] \in CloseQuotes
                       /\ \A k \in (i + 1)..(j - 1) : s[k] # "\n" }
       IN IF ends = {} THEN 0 ELSE CHOOSE j \in ends : \A k \in ends : j <= k

\* re.search: the leftmost position at or after start where the pattern
\* matches, 0 when it matches nowhere
MatchStart(s, start) ==
  LET starts == { i \in start..Len(s) : MatchEnd(s, i) # 0 }
  IN IF starts = {} THEN 0 ELSE CHOOSE i \in starts : \A k \in starts : i <= k

\* variant: re.sub(pattern, '', s, count=1), only the first match removed
RemoveQuoted_FirstOnly(s) ==
  LET i == MatchStart(s, 1)
  IN IF i = 0 THEN s
     ELSE SubSeq(s, 1, i - 1) \o SubSeq(s, MatchEnd(s, i) + 1, Len(s))

\* re.sub(pattern, '', s): every non-overlapping match removed, left to right
RECURSIVE RemoveQuoted(_)
RemoveQuoted(s) ==
  LET i == MatchStart(s, 1)
  IN IF i = 0 THEN s
     ELSE SubSeq(s, 1, i - 1) \o RemoveQuoted(SubSeq(s, MatchEnd(s, i) + 1, Len(s)))

\* variant: without the early return for the sentinel strings
extract_nickname_and_clean_NoSentinels(raw_name) ==
  LET i == MatchStart(raw_name, 1)
      nickname == IF i # 0 THEN SubSeq(raw_name, i + 1, MatchEnd(raw_name, i) - 1)
                  ELSE << >>
  IN << JoinSpace(SplitWs(RemoveQuoted(raw_name))), nickname >>

\* extract_nickname_and_clean(raw_name) = << clean_name, nickname >>
extract_nickname_and_clean(raw_name) ==
  IF raw_name = << >> \/ raw_name \in {NameNotFound, NotAvailable}
  THEN << << >>, << >> >>
  ELSE LET i == MatchStart(raw_name, 1)
           nickname == IF i # 0 THEN SubSeq(raw_name, i + 1, MatchEnd(raw_name, i) - 1)
                       ELSE << >>
       IN << JoinSpace(SplitWs(RemoveQuoted(raw_name))), nickname >>

\* ------------------------------------------------------------------------
\* Fetcher (fetch_athlete_data), the parts that are pure
\* ------------------------------------------------------------------------
\* variant: the status code is not looked at, the heading of an error page
\* is taken as the name
fetch_page_content_NoStatusCheck(resp, is_main) ==
  IF resp.kind = "exception" THEN [name |-> << >>, country |-> << >>]
  ELSE [name    |-> IF resp.h1 # None THEN resp.h1 ELSE << >>,
        country |-> IF is_main /\ resp.country # None THEN resp.country ELSE << >>]

\* fetch_page_content on the response of one locale request: the dict
\* {"name", "country"} starts empty and is filled only from a 200 page; an
\* exception and a non-200 status leave it empty.  A page is its h1 text
\* (None: no h1) and the value of its first "country" attribute block
\* (None: no such block or no value in it).
fetch_page_content(resp, is_main) ==
  IF resp.kind # "ok" THEN [name |-> << >>, country |-> << >>]
  ELSE [name    |-> IF resp.h1 # None THEN resp.h1 ELSE << >>,
        country |-> IF is_main /\ resp.country # None THEN resp.country ELSE << >>]

\* the dict fetch_athlete_data returns, from the results of the locale tasks
FetchReturn(u, res) ==
  [url       |-> u,
   names_map |-> [ k \in DOMAIN res |-> res[k].name ],
   country   |-> res["EN"].country]

\* dict.get(key, '') on a names_map
Get(names, key) == IF key \in DOMAIN names THEN names[key] ELSE << >>

\* variant: a locale column is written only when its name is non-empty
MakeRecord_OmitsEmpty(u, data) ==
  LET names == data.names_map
      en == extract_nickname_and_clean(Get(names, "EN"))
      base == [Name |-> en[1], Nickname |-> en[2], Country |-> data.country,
               URL |-> u]
      cols == { l \in {"TH", "JP", "SC"} : Get(names, l) # << >> }
  IN [ k \in DOMAIN base \cup cols |->
         IF k \in cols THEN extract_nickname_and_clean(Get(names, k))[1]
         ELSE base[k] ]

\* the record both loops append to master_data
MakeRecord(u, data) ==
  LET names == data.names_map
      en == extract_nickname_and_clean(Get(names, "EN"))
  IN [Name     |-> en[1],
      Nickname |-> en[2],
      Country  |-> data.country,
      TH       |-> extract_nickname_and_clean(Get(names, "TH"))[1],
      JP       |-> extract_nickname_and_clean(Get(names, "JP"))[1],
      SC       |-> extract_nickname_and_clean(Get(names, "SC"))[1],
      URL      |-> u]

\* data['names_map'].get('EN') is truthy
HasDefaultName(data) == Get(data.names_map, "EN") # << >>

\* ------------------------------------------------------------------------
\* Inputs and environment
\* ------------------------------------------------------------------------
\* the raw pieces the text area is made of: a name, the same name with
\* surrounding blanks, a two-word name, a canonical profile URL, a blank
\* piece, and a string with the direct-URL marker whose netloc has an
\* unmatched bracket
NameA   == << "a" >>
NameAPadded == << " ", "a", " " >>
NameAB  == << "A", " ", "b" >>
UrlA    == ProfileUrl(<< "a" >>)
Blank   == << " " >>
BadUrl  == << "/", "/", "[" >> \o Marker \o << "a" >>

Pieces == {NameA, NameAPadded, NameAB, UrlA, Blank, BadUrl}

RECURSIVE JoinWith(_, _)
JoinWith(ps, sep) ==
  IF ps = << >> THEN << >>
  ELSE IF Len(ps) = 1 THEN Head(ps)
       ELSE Head(ps) \o << sep >> \o JoinWith(Tail(ps), sep)

\* the texts the user may paste: up to MaxPieces pieces, one per line or
\* comma-separated
Inputs ==
  { JoinWith(ps, sep) :
      ps \in UNION { [1..n -> Pieces] : n \in 0..MaxPieces }, sep \in {",", "\n"} }

\* a response of the network to one request
Resp(kind, h1, country, links) ==
  [kind |-> kind, h1 |-> h1, country |-> country, links |-> links]

\* the request raises (timeout, connection error)
Timeout   == Resp("exception", None, None, None)

\* a non-200 answer; its body is an error page with a heading of its own
ErrorHeading == << "4", "0", "4" >>
NotFound  == Resp("status", ErrorHeading, None, None)

\* the heading and country of a profile page
Heading   == << "A", " ", "\"", "B", "\"", " ", "C" >>
CountryTH == << "T", "h", "a", "i" >>

\* answers to the page request of a locale.  A 200 page without a heading
\* is an answer for the default locale, where it decides whether a record is
\* made; for a mirror it leaves the same empty dict as a failed request.
PageResponses(lang) ==
  {Timeout, NotFound, Resp("ok", Heading, CountryTH, None)}
    \cup (IF lang = "EN" THEN {Resp("ok", None, None, None)} ELSE {})

\* answers to an existence probe
ProbeResponses == {Timeout, NotFound, Resp("ok", Heading, CountryTH, None)}

\* the anchors of a search result page: a navigation link, then a profile
SearchLinks == << << "/", "a", "/" >>, UrlA >>

\* answers to the site search: the page may lack a primary content region
SearchResponses ==
  {Timeout, Resp("ok", None, None, None), Resp("ok", None, None, SearchLinks),
   Resp("status", None, None, SearchLinks), Resp("ok", None, None, << >>)}

\* ------------------------------------------------------------------------
\* State
\* ------------------------------------------------------------------------
VARIABLES
  phase,          \* "idle", "scan", "retry", "complete", "empty_input", "crashed"
  pc,             \* position inside the attempt of the current entry
  entries,        \* list(set(entries))
  i,              \* 1-based index of the loop that is running
  master_data,    \* the result
  retry_queue,
  url,            \* what search_onefc_link returned in this attempt
  results,        \* the results dict of fetch_athlete_data
  pending,        \* locales whose task has not completed
  dups,           \* history: entries that more than one raw piece trimmed to
  origin,         \* history: per record, the entry and phase that appended it
  scanAttempts,   \* history: attempts per entry in Phase Scan
  retryAttempts,  \* history: attempts per entry in Phase Retry
  outcome,        \* history: per entry, how its attempt ended in each phase
  nreq,           \* history: requests the resolver issued in this attempt
  failed,         \* history: locales whose request failed in this attempt
  net,            \* environment: what the network answers (see FreeNet)
  raw_name,       \* the argument of a call of extract_nickname_and_clean
  parsed          \* what that call returned

vars == << phase, pc, entries, i, master_data, retry_queue, url, results,
           pending, dups, origin, scanAttempts, retryAttempts, outcome, nreq,
           failed, net, raw_name, parsed >>

\* the variables that are history only
hist == << dups, origin, scanAttempts, retryAttempts, outcome, nreq, failed >>

\* the variables no step of the batch run writes
env == << net, raw_name, parsed >>

\* the network is free: every request may time out, be refused or be served
FreeNet ==
  [mode |-> "free", up |-> {}, err |-> "exception", links |-> << >>,
   h1 |-> Heading]

\* a fixed site: the URLs in up are served with status 200, every other
\* request fails the way err says; the profile pages have the heading h1,
\* the search page lists the anchors links (the error page of the site has
\* the same layout)
Up(u) == u \in net.up

SiteAnswer(u) ==
  IF Up(u) THEN Resp("ok", net.h1, CountryTH, None)
  ELSE IF net.err = "exception" THEN Timeout ELSE NotFound

SiteSearchAnswer(u) ==
  IF Up(u) THEN Resp("ok", None, None, net.links)
  ELSE IF net.err = "exception" THEN Timeout
       ELSE Resp("status", None, None, net.links)

\* what session.get may answer to a probe, a locale page and the search
ProbeAnswers(u) ==
  IF net.mode = "free" THEN ProbeResponses ELSE {SiteAnswer(u)}

PageAnswers(lang, u) ==
  IF net.mode = "free" THEN PageResponses(lang) ELSE {SiteAnswer(u)}

SearchAnswers(u) ==
  IF net.mode = "free" THEN SearchResponses ELSE {SiteSearchAnswer(u)}

Init ==
  /\ phase = "idle"
  /\ pc = "done"
  /\ entries = << >>
  /\ i = 0
  /\ master_data = << >>
  /\ retry_queue = << >>
  /\ url = None
  /\ results = << >>
  /\ pending = {}
  /\ dups = {}
  /\ origin = << >>
  /\ scanAttempts = << >>
  /\ retryAttempts = << >>
  /\ outcome = << >>
  /\ nreq = 0
  /\ failed = {}
  /\ net = FreeNet
  /\ raw_name = None
  /\ parsed = None

\* [e.strip() for e in re.split(r'[,\n]', input_raw) if e.strip()]
RECURSIVE StripAll(_)
StripAll(ps) ==
  IF ps = << >> THEN << >> ELSE << Strip(Head(ps)) >> \o StripAll(Tail(ps))

SplitEntries(raw) == NonEmpty(StripAll(SplitAt(raw, {",", "\n"})))

\* every order of the members of a set
Orderings(S) ==
  { f \in [1..Cardinality(S) -> S] : \A a, b \in DOMAIN f : a # b => f[a] # f[b] }

\* variant: the list is used as split, without set()
ListOfSet_KeepsDuplicates(xs) == {xs}

\* the lists list(set(xs)) may return: the distinct members of xs, in any
\* order (a set has no iteration order the program controls)
ListOfSet(xs) == Orderings(Range(xs))

\* the entry the running loop is at
cur == IF phase = "scan" THEN entries[i] ELSE retry_queue[i]

\* requests in flight
InFlight == { LangUrl(lang, SlugOf(url)) : lang \in pending }

\* ------------------------------------------------------------------------
\* The batch run (the body of "if search_clicked")
\* ------------------------------------------------------------------------
\* the entries that at least two raw pieces of the text trim to
Repeated(raw) ==
  LET ps == SplitEntries(raw)
  IN { ps[a] : a \in { a \in DOMAIN ps : \E b \in DOMAIN ps : b # a /\ ps[b] = ps[a] } }

\* the button is clicked on a blank text area: st.error, nothing runs
ClickEmpty ==
  /\ phase = "idle"
  /\ \E input_raw \in Inputs : Strip(input_raw) = << >>
  /\ phase' = "empty_input"
  /\ UNCHANGED << pc, entries, i, master_data, retry_queue, url, results,
                  pending, hist >>
  /\ UNCHANGED env

\* the button is clicked: split, trim, drop empties, de-duplicate, and enter
\* the scan loop (or fall through both loops when no entry is left)
Click ==
  /\ phase = "idle"
  /\ \E input_raw \in Inputs :
       /\ Strip(input_raw) # << >>
       /\ dups' = Repeated(input_raw)
       /\ \E es \in ListOfSet(SplitEntries(input_raw)) :
            /\ entries' = es
            /\ scanAttempts' = [ e \in Range(es) |-> 0 ]
            /\ retryAttempts' = [ e \in Range(es) |-> 0 ]
            /\ outcome' = [ e \in Range(es) |-> [scan |-> "none", retry |-> "none"] ]
            /\ IF es = << >>
               THEN phase' = "complete" /\ pc' = "done" /\ i' = 0
               ELSE phase' = "scan" /\ pc' = "resolve" /\ i' = 1
  /\ master_data' = << >>
  /\ retry_queue' = << >>
  /\ UNCHANGED << url, results, pending, origin, nreq, failed >>
  /\ UNCHANGED env

\* history: the loop body starts for the current entry
CountAttempt ==
  IF phase = "scan"
  THEN /\ scanAttempts' = [scanAttempts EXCEPT ![cur] = @ + 1]
       /\ UNCHANGED retryAttempts
  ELSE /\ retryAttempts' = [retryAttempts EXCEPT ![cur] = @ + 1]
       /\ UNCHANGED scanAttempts

\* search_onefc_link, step 1: the query contains the marker and is returned
ResolveDirect ==
  /\ pc = "resolve"
  /\ Strip(cur) # << >>
  /\ DirectHit(cur)
  /\ url' = Strip(cur)
  /\ pc' = "fetch"
  /\ CountAttempt
  /\ UNCHANGED << phase, entries, i, master_data, retry_queue, results, pending,
                  dups, origin, outcome, nreq, failed >>
  /\ UNCHANGED env

\* variant: a full-name slug that exists is remembered, and the first-token
\* probe is made all the same
ProbeFull_NoShortCircuit ==
  /\ pc = "resolve"
  /\ Strip(cur) # << >>
  /\ ~DirectHit(cur)
  /\ \E r \in ProbeAnswers(UrlFull(cur)) :
       IF CheckUrlValid(r)
       THEN url' = UrlFull(cur) /\ pc' = "probe_first"
       ELSE url' = url /\ pc' = "probe_first"
  /\ nreq' = nreq + 1
  /\ CountAttempt
  /\ UNCHANGED << phase, entries, i, master_data, retry_queue, results, pending,
                  dups, origin, outcome, failed >>
  /\ UNCHANGED env

\* search_onefc_link, step 2: probe the full-name slug
ProbeFull ==
  /\ pc = "resolve"
  /\ Strip(cur) # << >>
  /\ ~DirectHit(cur)
  /\ \E r \in ProbeAnswers(UrlFull(cur)) :
       IF CheckUrlValid(r)
       THEN url' = UrlFull(cur) /\ pc' = "fetch"
       ELSE url' = url /\ pc' = "probe_first"
  /\ nreq' = nreq + 1
  /\ CountAttempt
  /\ UNCHANGED << phase, entries, i, master_data, retry_queue, results, pending,
                  dups, origin, outcome, failed >>
  /\ UNCHANGED env

\* search_onefc_link, step 3: probe the first-token slug
ProbeFirst ==
  /\ pc = "probe_first"
  /\ \E r \in ProbeAnswers(UrlFirst(cur)) :
       IF CheckUrlValid(r)
       THEN url' = UrlFirst(cur) /\ pc' = "fetch"
       ELSE url' = url /\ pc' = "search"
  /\ nreq' = nreq + 1
  /\ UNCHANGED << phase, entries, i, master_data, retry_queue, results, pending,
                  dups, origin, scanAttempts, retryAttempts, outcome, failed >>
  /\ UNCHANGED env

\* search_onefc_link, step 4: the site search; None when nothing matched
Search ==
  /\ pc = "search"
  /\ \E r \in SearchAnswers(SearchUrl(cur)) :
       /\ url' = SearchResult(r)
       /\ pc' = IF Truthy(SearchResult(r)) THEN "fetch" ELSE "decide"
  /\ nreq' = nreq + 1
  /\ UNCHANGED << phase, entries, i, master_data, retry_queue, results, pending,
                  dups, origin, scanAttempts, retryAttempts, outcome, failed >>
  /\ UNCHANGED env

\* fetch_athlete_data: urlparse raises ValueError; nothing between it and
\* the top of the script catches it, the run ends there
FetchRaise ==
  /\ pc = "fetch"
  /\ UrlPath(url) = Raises
  /\ phase' = "crashed"
  /\ pc' = "done"
  /\ UNCHANGED << entries, i, master_data, retry_queue, url, results, pending,
                  hist >>
  /\ UNCHANGED env

\* fetch_athlete_data: the slug is derived and the four locale tasks are
\* submitted to the pool of four workers
FetchSubmit ==
  /\ pc = "fetch"
  /\ UrlPath(url) # Raises
  /\ results' = << >>
  /\ pending' = Langs
  /\ pc' = "fetching"
  /\ UNCHANGED << phase, entries, i, master_data, retry_queue, url, hist >>
  /\ UNCHANGED env

\* variant: fetch_athlete_data returns as soon as the default-locale task
\* has completed, without waiting for the mirrors
TaskComplete_ReturnsOnDefault ==
  /\ pc = "fetching"
  /\ \E lang \in pending :
     \E r \in PageAnswers(lang, LangUrl(lang, SlugOf(url))) :
       /\ results' = (lang :> fetch_page_content(r, lang = "EN")) @@ results
       /\ pending' = pending \ {lang}
       /\ failed' = IF r.kind # "ok" THEN failed \cup {lang} ELSE failed
       /\ pc' = IF lang = "EN" \/ pending \ {lang} = {} THEN "decide" ELSE "fetching"
  /\ UNCHANGED << phase, entries, i, master_data, retry_queue, url, dups,
                  origin, scanAttempts, retryAttempts, outcome, nreq >>
  /\ UNCHANGED env

\* variant: the dicts are stored in the order the tasks complete, under the
\* locales in the order of the langs dict
TaskComplete_ByArrival ==
  /\ pc = "fetching"
  /\ \E lang \in pending :
     \E r \in PageAnswers(lang, LangUrl(lang, SlugOf(url))) :
       LET slot == << "EN", "TH", "JP", "SC" >>[5 - Cardinality(pending)]
       IN /\ results' = (slot :> fetch_page_content(r, lang = "EN")) @@ results
          /\ pending' = pending \ {lang}
          /\ failed' = IF r.kind # "ok" THEN failed \cup {lang} ELSE failed
          /\ pc' = IF pending \ {lang} = {} THEN "decide" ELSE "fetching"
  /\ UNCHANGED << phase, entries, i, master_data, retry_queue, url, dups,
                  origin, scanAttempts, retryAttempts, outcome, nreq >>
  /\ UNCHANGED env

\* one locale task completes, in any order (as_completed), and its dict is
\* stored under its locale; after the last one the with-block is left
TaskComplete ==
  /\ pc = "fetching"
  /\ \E lang \in pending :
     \E r \in PageAnswers(lang, LangUrl(lang, SlugOf(url))) :
       /\ results' = (lang :> fetch_page_content(r, lang = "EN")) @@ results
       /\ pending' = pending \ {lang}
       /\ failed' = IF r.kind # "ok" THEN failed \cup {lang} ELSE failed
       /\ pc' = IF pending \ {lang} = {} THEN "decide" ELSE "fetching"
  /\ UNCHANGED << phase, entries, i, master_data, retry_queue, url, dups,
                  origin, scanAttempts, retryAttempts, outcome, nreq >>
  /\ UNCHANGED env

\* data = fetch_athlete_data(url), evaluated only under "if url:", where it
\* is never None
AttemptData == FetchReturn(url, results)

\* variant: a record is made only when every locale gave a name
AttemptSucceeds_AllLocales ==
  /\ Truthy(url)
  /\ \A l \in Langs : Get(AttemptData.names_map, l) # << >>

\* "if url: ... if data and data['names_map'].get('EN')"
AttemptSucceeds == Truthy(url) /\ HasDefaultName(AttemptData)

\* history: the attempt ended with a resolved URL and a non-empty
\* default-locale raw name, or without
AttemptOK ==
  Truthy(url) /\ "EN" \in DOMAIN results /\ results["EN"].name # << >>

NoteOutcome ==
  outcome' = [outcome EXCEPT ![cur] =
                IF phase = "scan"
                THEN [@ EXCEPT !.scan = IF AttemptOK THEN "ok" ELSE "fail"]
                ELSE [@ EXCEPT !.retry = IF AttemptOK THEN "ok" ELSE "fail"]]

\* the locals of the attempt are dead once the loop body ends
ClearLocals ==
  /\ url' = None
  /\ results' = << >>
  /\ pending' = {}
  /\ nreq' = 0
  /\ failed' = {}

\* variant: the entry is queued for retry whether or not a record was made
ScanDecide_QueuesAlways ==
  /\ phase = "scan"
  /\ pc = "decide"
  /\ IF AttemptSucceeds
     THEN /\ master_data' = Append(master_data, MakeRecord(url, AttemptData))
          /\ origin' = Append(origin, [entry |-> cur, phase |-> "scan"])
     ELSE UNCHANGED << master_data, origin >>
  /\ retry_queue' = Append(retry_queue, cur)
  /\ IF i < Len(entries)
     THEN i' = i + 1 /\ pc' = "resolve" /\ phase' = phase
     ELSE i' = 1 /\ pc' = "resolve" /\ phase' = "retry"
  /\ ClearLocals
  /\ NoteOutcome
  /\ UNCHANGED << entries, dups, scanAttempts, retryAttempts >>
  /\ UNCHANGED env

\* Phase 1: the rest of the loop body (record or queue) and the loop step;
\* after the last entry the retry loop starts when the queue is non-empty
ScanDecide ==
  /\ phase = "scan"
  /\ pc = "decide"
  /\ IF AttemptSucceeds
     THEN /\ master_data' = Append(master_data, MakeRecord(url, AttemptData))
          /\ origin' = Append(origin, [entry |-> cur, phase |-> "scan"])
          /\ retry_queue' = retry_queue
     ELSE /\ retry_queue' = Append(retry_queue, cur)
          /\ UNCHANGED << master_data, origin >>
  /\ IF i < Len(entries)
     THEN i' = i + 1 /\ pc' = "resolve" /\ phase' = phase
     ELSE IF retry_queue' # << >>
          THEN i' = 1 /\ pc' = "resolve" /\ phase' = "retry"
          ELSE i' = 0 /\ pc' = "done" /\ phase' = "complete"
  /\ ClearLocals
  /\ NoteOutcome
  /\ UNCHANGED << entries, dups, scanAttempts, retryAttempts >>
  /\ UNCHANGED env

\* variant: the record of a successful retry is built but never appended
RetryDecide_Discards ==
  /\ phase = "retry"
  /\ pc = "decide"
  /\ UNCHANGED << master_data, origin >>
  /\ IF i < Len(retry_queue)
     THEN i' = i + 1 /\ pc' = "resolve" /\ phase' = phase
     ELSE i' = 0 /\ pc' = "done" /\ phase' = "complete"
  /\ ClearLocals
  /\ NoteOutcome
  /\ UNCHANGED << entries, retry_queue, dups, scanAttempts, retryAttempts >>
  /\ UNCHANGED env

\* variant: an entry that fails again is put back at the end of the queue
RetryDecide_Requeues ==
  /\ phase = "retry"
  /\ pc = "decide"
  /\ IF AttemptSucceeds
     THEN /\ master_data' = Append(master_data, MakeRecord(url, AttemptData))
          /\ origin' = Append(origin, [entry |-> cur, phase |-> "retry"])
          /\ retry_queue' = retry_queue
     ELSE /\ retry_queue' = Append(retry_queue, cur)
          /\ UNCHANGED << master_data, origin >>
  /\ IF i < Len(retry_queue')
     THEN i' = i + 1 /\ pc' = "resolve" /\ phase' = phase
     ELSE i' = 0 /\ pc' = "done" /\ phase' = "complete"
  /\ ClearLocals
  /\ NoteOutcome
  /\ UNCHANGED << entries, dups, scanAttempts, retryAttempts >>
  /\ UNCHANGED env

\* Phase 2: the rest of the loop body (record or nothing) and the loop step
RetryDecide ==
  /\ phase = "retry"
  /\ pc = "decide"
  /\ IF AttemptSucceeds
     THEN /\ master_data' = Append(master_data, MakeRecord(url, AttemptData))
          /\ origin' = Append(origin, [entry |-> cur, phase |-> "retry"])
     ELSE UNCHANGED << master_data, origin >>
  /\ IF i < Len(retry_queue)
     THEN i' = i + 1 /\ pc' = "resolve" /\ phase' = phase
     ELSE i' = 0 /\ pc' = "done" /\ phase' = "complete"
  /\ ClearLocals
  /\ NoteOutcome
  /\ UNCHANGED << entries, retry_queue, dups, scanAttempts, retryAttempts >>
  /\ UNCHANGED env

Next ==
  \/ ClickEmpty
  \/ Click
  \/ ResolveDirect
  \/ ProbeFull
  \/ ProbeFirst
  \/ Search
  \/ FetchRaise
  \/ FetchSubmit
  \/ TaskComplete
  \/ ScanDecide
  \/ RetryDecide

Spec == Init /\ [][Next]_vars

\* every step of the run is taken eventually: each request returns or
\* times out, and the script runs on between requests
FairSpec == Spec /\ WF_vars(Next)

\* ------------------------------------------------------------------------
\* The batch run against a fixed site
\* ------------------------------------------------------------------------
\* the URLs that may exist or not: the profile pages of the two slugs, two
\* mirrors of the first, and the two search pages; no other URL is served
NetKeys ==
  {UrlA, UrlFull(NameAB), LangUrl("TH", << "a" >>), LangUrl("JP", << "a" >>),
   SearchUrl(NameA), SearchUrl(NameAB)}

\* a heading that is a quoted nickname and nothing else
NicknameOnly == << "\"", "B", "\"" >>

BatchNets ==
  { [mode |-> "fixed", up |-> S, err |-> e, links |-> SearchLinks, h1 |-> h] :
      S \in SUBSET NetKeys, e \in {"exception", "status"},
      h \in {Heading, NicknameOnly} }

InitFixed ==
  /\ phase = "idle"
  /\ pc = "done"
  /\ entries = << >>
  /\ i = 0
  /\ master_data = << >>
  /\ retry_queue = << >>
  /\ url = None
  /\ results = << >>
  /\ pending = {}
  /\ dups = {}
  /\ origin = << >>
  /\ scanAttempts = << >>
  /\ retryAttempts = << >>
  /\ outcome = << >>
  /\ nreq = 0
  /\ failed = {}
  /\ net \in BatchNets
  /\ raw_name = None
  /\ parsed = None

FixedNetSpec == InitFixed /\ [][Next]_vars

\* ------------------------------------------------------------------------
\* The resolver on its own: one query, from its first step to its return
\* ------------------------------------------------------------------------
SlugChars == {"a", "b", "c", "-"}

Slugs == UNION { [1..n -> SlugChars] : n \in 1..MaxSlugLen }

\* the queries the resolver is tried on: every canonical profile URL with a
\* slug up to MaxSlugLen, the two names and the malformed URL
Queries == { ProfileUrl(sl) : sl \in Slugs } \cup {NameA, NameAB, BadUrl}

\* the anchors a search page may carry: a navigation link, a profile as a
\* relative and as an absolute link, and the athletes index page
NavHref     == << "/", "a", "/" >>
RelProfile  == << "/" >> \o AthletesSeg \o << "a", "/" >>
IndexUrl    == Site \o AthletesSeg
Hrefs       == {NavHref, RelProfile, UrlA, IndexUrl}

LinkLists ==
  {<< >>} \cup { << x >> : x \in Hrefs } \cup { << x, y >> : x, y \in Hrefs }

\* the sites a name is resolved against: either guessed profile and either
\* search page may exist or not, requests for what does not exist time out
\* or get an error status, and the search page carries any of the anchor lists
ResolverNets ==
  { [mode |-> "fixed", up |-> S, err |-> e, links |-> L, h1 |-> Heading] :
      S \in SUBSET {UrlA, UrlFull(NameAB), SearchUrl(NameA), SearchUrl(NameAB)},
      e \in {"exception", "status"},
      L \in LinkLists }

InitResolver ==
  /\ phase = "scan"
  /\ pc = "resolve"
  /\ \E q \in Queries :
       /\ net \in (IF DirectHit(q) THEN {FreeNet} ELSE ResolverNets \cup {FreeNet})
       /\ entries = << q >>
       /\ scanAttempts = [ e \in {q} |-> 0 ]
       /\ retryAttempts = [ e \in {q} |-> 0 ]
       /\ outcome = [ e \in {q} |-> [scan |-> "none", retry |-> "none"] ]
  /\ i = 1
  /\ master_data = << >>
  /\ retry_queue = << >>
  /\ url = None
  /\ results = << >>
  /\ pending = {}
  /\ dups = {}
  /\ origin = << >>
  /\ nreq = 0
  /\ failed = {}
  /\ raw_name = None
  /\ parsed = None

NextResolver ==
  \/ ResolveDirect
  \/ ProbeFull
  \/ ProbeFirst
  \/ Search

ResolverSpec == InitResolver /\ [][NextResolver]_vars

\* ------------------------------------------------------------------------
\* Properties
\* ------------------------------------------------------------------------
TypeOK ==
  /\ phase \in {"idle", "scan", "retry", "complete", "empty_input", "crashed"}
  /\ pc \in {"done", "resolve", "probe_first", "search", "fetch", "fetching", "decide"}
  /\ pending \subseteq Langs
  /\ DOMAIN results \subseteq Langs
  /\ Len(origin) = Len(master_data)

\* the number of records of the result that the attempts of entry e appended
RecordCount(e) == Cardinality({ k \in DOMAIN origin : origin[k].entry = e })

\* the run is over and the result is final
Final == phase = "complete"

\* C1: each unique entry contributes at most one record to the result: an
\* entry whose Scan attempt appended a record is never in the retry queue,
\* the queue holds no entry twice, and Retry appends records only for queued
\* entries, at most one each.
C1_AtMostOneRecordPerEntry ==
  /\ Len(origin) = Len(master_data)
  /\ \A e \in DOMAIN outcome : RecordCount(e) <= 1
  /\ \A k \in DOMAIN origin :
       /\ origin[k].entry \in Range(entries)
       /\ origin[k].phase = "scan" => origin[k].entry \notin Range(retry_queue)
       /\ origin[k].phase = "retry" => origin[k].entry \in Range(retry_queue)
  /\ \A a, b \in DOMAIN retry_queue : a # b => retry_queue[a] # retry_queue[b]

\* a finished run with one record from each phase
C1_Witness ==
  /\ Final
  /\ Len(master_data) = 2
  /\ origin[1].phase = "scan"
  /\ origin[2].phase = "retry"

\* C2: an entry whose Scan attempt failed and whose Retry attempt succeeded
\* (the resolver returned a URL and the default-locale name was non-empty)
\* has exactly one record in the result, from then on and in the final result.
C2_RetrySuccessGivesOneRecord ==
  \A e \in DOMAIN outcome :
    (outcome[e].scan = "fail" /\ outcome[e].retry = "ok") => RecordCount(e) = 1

\* a finished run in which an entry failed in Scan and succeeded in Retry
C2_Witness ==
  /\ Final
  /\ \E e \in DOMAIN outcome :
       outcome[e].scan = "fail" /\ outcome[e].retry = "ok" /\ RecordCount(e) = 1

\* C3: an entry that failed in both phases has no record in the result, and
\* no error is raised out of the batch run.
C3_NoRecordAndNoErrorRaised ==
  /\ \A e \in DOMAIN outcome :
       (outcome[e].scan = "fail" /\ outcome[e].retry = "fail") => RecordCount(e) = 0
  /\ phase # "crashed"

\* C4: every entry is attempted at most once per phase; an entry is retried
\* only after every entry had its Scan attempt and only if its own Scan
\* attempt failed; when the run is over, the retried entries are exactly the
\* ones that failed in Scan.
C4_RetryExactlyTheScanFailures ==
  \A e \in DOMAIN outcome :
    /\ scanAttempts[e] <= 1
    /\ retryAttempts[e] <= 1
    /\ retryAttempts[e] >= 1 =>
         /\ outcome[e].scan = "fail"
         /\ \A e2 \in DOMAIN outcome : outcome[e2].scan # "none"
    /\ outcome[e].scan = "ok" => retryAttempts[e] = 0
    /\ Final => /\ scanAttempts[e] = 1
                /\ retryAttempts[e] = 1 <=> outcome[e].scan = "fail"

\* a finished run of two entries, one recorded in Scan and one retried
C4_Witness ==
  /\ Final
  /\ \E e1, e2 \in DOMAIN outcome :
       /\ outcome[e1].scan = "ok" /\ retryAttempts[e1] = 0
       /\ outcome[e2].scan = "fail" /\ retryAttempts[e2] = 1

\* C5: the batch run ends only in the processing-complete state, after one
\* Scan attempt per unique entry and at most one Retry attempt per queued
\* entry: it never stops before every entry was attempted.
C5_RunStopsOnlyWhenComplete ==
  (pc = "done" /\ entries # << >>) =>
    /\ phase = "complete"
    /\ \A e \in DOMAIN outcome : scanAttempts[e] = 1 /\ retryAttempts[e] <= 1

\* the number of steps the run can still take, at most: nine per attempt
\* (three resolver requests, the submit, four task completions, the
\* decision), every entry having one Scan attempt and at most one Retry
PcRank ==
  CASE pc = "resolve" -> 9
    [] pc = "probe_first" -> 8
    [] pc = "search" -> 7
    [] pc = "fetch" -> 6
    [] pc = "fetching" -> 1 + Cardinality(pending)
    [] pc = "decide" -> 1
    [] OTHER -> 0

StepsLeft ==
  CASE phase = "idle" -> 1 + 20 * MaxPieces
    [] phase = "scan" -> 10 * ((Len(entries) - i) + Len(entries)) + PcRank
    [] phase = "retry" -> 10 * (Len(retry_queue) - i) + PcRank
    [] OTHER -> 0

\* every step of the run brings its end nearer: no run goes on for ever
RunProgresses == [][StepsLeft' < StepsLeft /\ StepsLeft' >= 0]_vars

\* C6: an entry that two or more raw pieces of the text trim to is one
\* processed entry: it is in the entry list once, is attempted once in Phase
\* Scan, and when that attempt succeeds the result holds exactly one record
\* for it.
C6_DuplicatesCollapse ==
  \A e \in dups :
    /\ Cardinality({ k \in DOMAIN entries : entries[k] = e }) = 1
    /\ scanAttempts[e] <= 1
    /\ outcome[e].scan # "none" => scanAttempts[e] = 1
    /\ outcome[e].scan = "ok" => RecordCount(e) = 1

\* a finished run whose text repeated an entry that succeeded in Scan
C6_Witness ==
  /\ Final
  /\ \E e \in dups :
       outcome[e].scan = "ok" /\ scanAttempts[e] = 1 /\ RecordCount(e) = 1

\* C7: every record of the result has a name field, a string that may be
\* empty, for each of the locales TH, JP and SC.
C7_EveryLocaleKeyPresent ==
  \A k \in DOMAIN master_data :
    \A l \in Langs \ {"EN"} :
      l \in DOMAIN master_data[k] /\ master_data[k][l] # None

\* a record appended in Phase Retry whose three mirrors all failed, next to
\* a record appended in Phase Scan
C7_Witness ==
  \E k, m \in DOMAIN master_data :
    /\ origin[k].phase = "retry"
    /\ origin[m].phase = "scan"
    /\ \A l \in Langs \ {"EN"} : master_data[k][l] = << >>

\* C8: for a canonical URL the fetcher does not raise, what it returns has
\* one entry per configured locale, and the entry of a locale whose request
\* failed (exception or non-200 status) has name "" and country "".
C8_FetcherTotalPerLocale ==
  IsCanonical(url) =>
    /\ phase # "crashed"
    /\ \A l \in failed :
         l \in DOMAIN results /\ results[l] = [name |-> << >>, country |-> << >>]
    /\ pc = "decide" =>
         /\ DOMAIN results = Langs
         /\ DOMAIN FetchReturn(url, results).names_map = Langs
         /\ \A l \in failed : FetchReturn(url, results).names_map[l] = << >>
         /\ "EN" \in failed => FetchReturn(url, results).country = << >>

\* the fetcher has returned for a canonical URL with the default locale and
\* one mirror failed and the other two fetched
C8_Witness ==
  /\ pc = "decide"
  /\ IsCanonical(url)
  /\ failed = {"EN", "JP"}
  /\ results["TH"].name # << >>

\* the attempt at hand resolved, fetched a default-locale name, and exactly
\* the mirror l failed
PartialFailure(l) ==
  /\ pc = "decide"
  /\ Truthy(url)
  /\ DOMAIN results = Langs
  /\ results["EN"].name # << >>
  /\ failed = {l}

\* C9: when exactly one mirror failed in an attempt that resolved and
\* fetched a default-locale name, the attempt appends a record; in it that
\* mirror's field is "" and every other field is what the other responses
\* give: the cleaned names, the nickname, the country and the URL.
C9_PartialFailureIsolated ==
  [][ \A l \in Langs \ {"EN"} :
        PartialFailure(l) =>
          /\ Len(master_data') = Len(master_data) + 1
          /\ LET r == master_data'[Len(master_data')]
                 en == extract_nickname_and_clean(results["EN"].name)
             IN /\ r[l] = << >>
                /\ r.Name = en[1]
                /\ r.Nickname = en[2]
                /\ r.Country = results["EN"].country
                /\ r.URL = url
                /\ \A m \in Langs \ {"EN", l} :
                     /\ r[m] = extract_nickname_and_clean(results[m].name)[1]
                     /\ r[m] # << >> ]_vars

\* a record whose TH field alone is empty
C9_Witness ==
  \E k \in DOMAIN master_data :
    /\ master_data[k].TH = << >>
    /\ master_data[k].JP # << >>
    /\ master_data[k].SC # << >>
    /\ master_data[k].Name # << >>
    /\ master_data[k].Country # << >>

\* C10: for a query of the canonical profile URL shape the resolver returns
\* the query unchanged and issues no probe and no search request.
C10_CanonicalUrlReturnedUnchanged ==
  (entries # << >> /\ phase = "scan" /\ IsCanonical(entries[i])) =>
    /\ pc \in {"resolve", "fetch"}
    /\ nreq = 0
    /\ pc = "fetch" => url = entries[i]

\* the resolver has returned for a canonical URL with a three-character slug
C10_Witness ==
  /\ pc = "fetch"
  /\ IsCanonical(entries[1])
  /\ Len(entries[1]) = Len(UrlA) + 2
  /\ url = entries[1]
  /\ nreq = 0

\* ------------------------------------------------------------------------
\* The resolver against a fixed site
\* ------------------------------------------------------------------------
\* what the four strategies, tried in their order, give for query q, and the
\* number of requests made up to the first one that succeeds
ResolveFixed(q) ==
  IF DirectHit(q) THEN Strip(q)
  ELSE IF Up(UrlFull(q)) THEN UrlFull(q)
  ELSE IF Up(UrlFirst(q)) THEN UrlFirst(q)
  ELSE SearchResult(SiteSearchAnswer(SearchUrl(q)))

RequestsFixed(q) ==
  IF DirectHit(q) THEN 0
  ELSE IF Up(UrlFull(q)) THEN 1
  ELSE IF Up(UrlFirst(q)) THEN 2
  ELSE 3

\* C11: the resolver tries its strategies in the fixed order direct-URL
\* check, full-name slug probe, first-token slug probe, site search: a later
\* strategy is reached only when every earlier one failed, what is returned
\* is the result of the first strategy that succeeds, and no request is made
\* after a success.
C11_StrategiesInOrder ==
  net.mode = "fixed" =>
    /\ pc = "probe_first" =>
         ~DirectHit(cur) /\ ~Up(UrlFull(cur)) /\ nreq = 1 /\ url = None
    /\ pc = "search" =>
         /\ ~DirectHit(cur) /\ ~Up(UrlFull(cur)) /\ ~Up(UrlFirst(cur))
         /\ nreq = 2 /\ url = None
    /\ pc \in {"fetch", "decide"} =>
         url = ResolveFixed(cur) /\ nreq = RequestsFixed(cur)

\* the site search gave the URL after both probes failed
C11_Witness ==
  /\ net.mode = "fixed"
  /\ pc = "fetch"
  /\ nreq = 3
  /\ Truthy(url)
  /\ ~Up(UrlFull(cur)) /\ ~Up(UrlFirst(cur))

\* C12: a network error during a probe or during the site search is
\* absorbed: a probe whose request raises counts as "does not exist" and the
\* resolver goes on to its next strategy, a site search whose request raises
\* gives nothing, and the resolver ends by returning a URL or nothing.
C12_ErrorsAbsorbed ==
  [][ (net.mode = "fixed" /\ net.err = "exception") =>
        /\ (pc = "resolve" /\ ~DirectHit(cur) /\ ~Up(UrlFull(cur))) =>
              pc' = "probe_first" /\ url' = None
        /\ (pc = "probe_first" /\ ~Up(UrlFirst(cur))) =>
              pc' = "search" /\ url' = None
        /\ (pc = "search" /\ ~Up(SearchUrl(cur))) =>
              pc' = "decide" /\ url' = None
        /\ phase' = phase
        /\ pc' = "fetch" => Truthy(url')
        /\ pc' = "decide" => url' = None ]_vars

\* all three requests raised and the resolver returned nothing
C12_Witness ==
  /\ net.mode = "fixed" /\ net.err = "exception"
  /\ ~Up(UrlFull(cur)) /\ ~Up(UrlFirst(cur)) /\ ~Up(SearchUrl(cur))
  /\ pc = "decide"
  /\ nreq = 3
  /\ url = None

\* ------------------------------------------------------------------------
\* The parser on its own: one call on one string
\* ------------------------------------------------------------------------
\* the characters the strings are made of: a letter, a blank, a newline, and
\* the three quote glyphs
RawChars == {"A", " ", "\n", "\"", "ldquo", "rdquo"}

\* the strings it is called on: every string of up to MaxRawLen characters,
\* the two sentinel strings and the heading of the profile page
RawNames ==
  UNION { [1..n -> RawChars] : n \in 0..MaxRawLen }
    \cup {NameNotFound, NotAvailable, Heading}

InitParser ==
  /\ raw_name \in RawNames
  /\ parsed = None
  /\ net = FreeNet
  /\ phase = "idle"
  /\ pc = "done"
  /\ entries = << >>
  /\ i = 0
  /\ master_data = << >>
  /\ retry_queue = << >>
  /\ url = None
  /\ results = << >>
  /\ pending = {}
  /\ dups = {}
  /\ origin = << >>
  /\ scanAttempts = << >>
  /\ retryAttempts = << >>
  /\ outcome = << >>
  /\ nreq = 0
  /\ failed = {}

\* a call extract_nickname_and_clean(raw_name)
ParseName ==
  /\ parsed = None
  /\ parsed' = extract_nickname_and_clean(raw_name)
  /\ UNCHANGED << phase, pc, entries, i, master_data, retry_queue, url, results,
                  pending, hist, net, raw_name >>

NextParser == ParseName

ParserSpec == InitParser /\ [][NextParser]_vars

\* a quoted segment of s: an opening mark at a and the nearest closing mark
\* after it at b, on one line
IsSegment(s, a, b) ==
  /\ a < b
  /\ s[a] \in OpenQuotes
  /\ s[b] \in CloseQuotes
  /\ \A k \in (a + 1)..(b - 1) : s[k] \notin CloseQuotes /\ s[k] # "\n"

HasSegment(s) == \E a, b \in 1..Len(s) : IsSegment(s, a, b)

\* the first quoted segment of s, as << a, b >>
FirstSegment(s) ==
  CHOOSE ab \in (1..Len(s)) \X (1..Len(s)) :
    /\ IsSegment(s, ab[1], ab[2])
    /\ \A a, b \in 1..Len(s) : IsSegment(s, a, b) => ab[1] <= a

\* s without its positions a..b
Cut(s, a, b) == SubSeq(s, 1, a - 1) \o SubSeq(s, b + 1, Len(s))

\* s without any of its quoted segments, taken left to right
RECURSIVE CutAll(_)
CutAll(s) ==
  IF ~HasSegment(s) THEN s
  ELSE LET ab == FirstSegment(s)
       IN SubSeq(s, 1, ab[1] - 1) \o CutAll(SubSeq(s, ab[2] + 1, Len(s)))

\* whitespace runs collapsed to one blank, the ends trimmed
Normalise(s) == JoinSpace(SplitWs(s))

\* C13 as stated: for every raw string with at least one quoted segment,
\* strings with several quoted segments included, the nickname is the
\* content of the first quoted segment and cleanName is the raw string with
\* that one segment removed, whitespace collapsed and trimmed.
C13_FirstSegmentRemoved ==
  (parsed # None /\ HasSegment(raw_name)) =>
    LET ab == FirstSegment(raw_name)
    IN parsed = << Normalise(Cut(raw_name, ab[1], ab[2])),
                   SubSeq(raw_name, ab[1] + 1, ab[2] - 1) >>

\* C13, amended: for every raw string with at least one quoted segment the
\* nickname is the content of the first quoted segment and cleanName is the
\* raw string with every quoted segment removed, whitespace collapsed and
\* trimmed.
C13_EverySegmentRemoved ==
  (parsed # None /\ HasSegment(raw_name)) =>
    LET ab == FirstSegment(raw_name)
    IN parsed = << Normalise(CutAll(raw_name)),
                   SubSeq(raw_name, ab[1] + 1, ab[2] - 1) >>

\* a string with two quoted segments was parsed
C13_Witness ==
  /\ parsed # None
  /\ HasSegment(raw_name)
  /\ HasSegment(SubSeq(raw_name, FirstSegment(raw_name)[2] + 1, Len(raw_name)))

\* C14: the parser is total.  For the empty string and for either sentinel
\* it returns ("", ""); for every other string without a quoted segment, a
\* single unmatched quote mark included, it returns an empty nickname and
\* the whitespace-normalised raw string as cleanName.
C14_ParserTotal ==
  parsed # None =>
    /\ Len(parsed) = 2
    /\ raw_name \in {<< >>, NameNotFound, NotAvailable} =>
         parsed = << << >>, << >> >>
    /\ (raw_name \notin {<< >>, NameNotFound, NotAvailable} /\ ~HasSegment(raw_name)) =>
         parsed = << Normalise(raw_name), << >> >>

\* a string with one unmatched quote mark and blanks to normalise was parsed
C14_Witness ==
  /\ parsed # None
  /\ Cardinality({ k \in DOMAIN raw_name :
                     raw_name[k] \in OpenQuotes \cup CloseQuotes }) = 1
  /\ parsed[1] # raw_name
  /\ parsed[2] = << >>

\* ------------------------------------------------------------------------
\* The batch run as a function of its input and the site
\* ------------------------------------------------------------------------
\* what fetch_athlete_data returns for u against the fixed site
FetchFixed(u) ==
  FetchReturn(u, [ l \in Langs |->
                     fetch_page_content(SiteAnswer(LangUrl(l, SlugOf(u))), l = "EN") ])

\* the records of the entries that resolve and have a default-locale name
ExpectedRecords ==
  { MakeRecord(ResolveFixed(e), FetchFixed(ResolveFixed(e))) :
      e \in { x \in Range(entries) :
                /\ Truthy(ResolveFixed(x))
                /\ HasDefaultName(FetchFixed(ResolveFixed(x))) } }

\* C15: against a fixed network the set of records of the final result is a
\* function of the set of entries alone: whatever order list(set()) gave
\* the entries and whatever order the locale tasks completed in, two runs
\* on the same input end with the same set of records.
C15_ResultDeterminedByInput ==
  (net.mode = "fixed" /\ Final) => Range(master_data) = ExpectedRecords

\* a finished run with two different records, one of them with a mirror
\* that failed and a mirror that answered
C15_Witness ==
  /\ net.mode = "fixed"
  /\ Final
  /\ Len(master_data) = 2
  /\ master_data[1] # master_data[2]
  /\ \E k \in DOMAIN master_data :
       master_data[k].TH = << >> /\ master_data[k].JP # << >>

\* C16: entries are processed strictly one after another.  Requests are in
\* flight only inside the fetch of the current entry, at most one per locale
\* (four); the fetcher returns only when every locale task has completed;
\* and an attempt that has started and is not yet decided is the attempt of
\* the current entry, so the next entry starts only after the decision.
C16_OneEntryAtATime ==
  /\ Cardinality(pending) <= 4
  /\ pending # {} => pc = "fetching" /\ phase \in {"scan", "retry"} /\ Truthy(url)
  /\ pc = "fetching" => DOMAIN results = Langs \ pending
  /\ (pc = "decide" /\ Truthy(url)) => pending = {} /\ DOMAIN results = Langs
  /\ pc \in {"done", "resolve", "probe_first", "search", "fetch"} =>
        pending = {} /\ results = << >>
  /\ phase = "scan" =>
        \A e \in DOMAIN outcome :
          (scanAttempts[e] > 0 /\ outcome[e].scan = "none") =>
             e = cur /\ pc # "resolve"
  /\ phase = "retry" =>
        \A e \in DOMAIN outcome :
          /\ outcome[e].scan # "none"
          /\ (retryAttempts[e] > 0 /\ outcome[e].retry = "none") =>
                e = cur /\ pc # "resolve"

\* the four locale requests of the second entry are in flight, the first
\* entry is decided
C16_Witness ==
  /\ phase = "scan"
  /\ i = 2
  /\ pc = "fetching"
  /\ InFlight = { LangUrl(l, SlugOf(url)) : l \in Langs }
  /\ Cardinality(InFlight) = 4
  /\ outcome[entries[1]].scan # "none"

\* the records the Scan attempts of entry e appended
ScanRecords(e) ==
  { k \in DOMAIN origin : origin[k] = [entry |-> e, phase |-> "scan"] }

\* C17: at the end of Phase Scan the entries are partitioned into those with
\* a record and those in the retry queue.  An entry is queued exactly when
\* its attempt ended with the resolver returning nothing or with an empty
\* default-locale raw name, and has a record exactly when the resolver
\* returned a URL and the default-locale raw name was non-empty.
C17_ScanPartitionsEntries ==
  /\ \A e \in DOMAIN outcome :
       /\ outcome[e].scan = "fail" <=> e \in Range(retry_queue)
       /\ outcome[e].scan = "ok" <=> ScanRecords(e) # {}
  /\ phase \in {"retry", "complete"} =>
       \A e \in Range(entries) :
         /\ outcome[e].scan \in {"ok", "fail"}
         /\ (e \in Range(retry_queue)) # (ScanRecords(e) # {})

\* Scan has ended with one entry recorded and another one queued
C17_Witness ==
  /\ phase = "retry"
  /\ pc = "resolve"
  /\ i = 1
  /\ retryAttempts[retry_queue[1]] = 0
  /\ Len(retry_queue) = 1
  /\ \E e \in Range(entries) : ScanRecords(e) # {}

\* the link target h points at an individual profile: the athletes segment
\* followed by a slug
IsProfileHref(h) ==
  LET seg == << "/" >> \o AthletesSeg
      k   == Find(h, seg, 1)
  IN /\ k > 0
     /\ Len(h) >= k + Len(seg)
     /\ h[k + Len(seg)] # "/"

\* the first profile anchor of a list of link targets, None when there is none
RECURSIVE FirstProfileHref(_)
FirstProfileHref(links) ==
  IF links = << >> THEN None
  ELSE IF IsProfileHref(Head(links)) THEN Head(links)
       ELSE FirstProfileHref(Tail(links))

\* C18: the site-search fallback never returns an index or listing page:
\* when the search request is answered, what it returns is the first anchor
\* of the primary content region that points at an individual athlete
\* profile, whether the link target is relative or absolute, and nothing
\* when there is no such anchor.
C18_SearchReturnsFirstProfile ==
  ( /\ net.mode = "fixed"
    /\ pc \in {"fetch", "decide"}
    /\ nreq = 3
    /\ SiteSearchAnswer(SearchUrl(cur)).kind # "exception" )
  => url = FirstProfileHref(net.links)

\* C19: every record of the result has a non-empty Name: no record is
\* appended when the cleaned default-locale name is empty, as it is for a
\* heading that is a sentinel string or only a quoted nickname.
C19_RecordsHaveName ==
  \A k \in DOMAIN master_data : master_data[k].Name # << >>

\* C20 as stated: no two records of the result have the same URL, also when
\* two distinct entries resolve to the same profile.
C20_NoTwoRecordsShareUrl ==
  \A k, m \in DOMAIN master_data :
    k # m => master_data[k].URL # master_data[m].URL

\* C20, amended: no two records of the result come from the same entry; two
\* records have the same URL only when two distinct entries resolved to the
\* same profile, and then both records are in the result.
C20_SameUrlOnlyFromDistinctEntries ==
  \A k, m \in DOMAIN master_data :
    (k # m /\ master_data[k].URL = master_data[m].URL) =>
       origin[k].entry # origin[m].entry

\* a finished run on a name and the URL of its profile, with a record each
C20_Witness ==
  /\ Final
  /\ Len(master_data) = 2
  /\ master_data[1].URL = master_data[2].URL
  /\ origin[1].entry # origin[2].entry
====
